---- MODULE Spec2Model ----
(***************************************************************************)
(* The generate-page workflow of DummyDB (src/ui/app/page.tsx): the React  *)
(* state of GeneratePage, its event handlers, and the two backend calls    *)
(* (parse, generate) whose completions resume the suspended handlers.      *)
(***************************************************************************)
EXTENDS Integers, Sequences, FiniteSets

VARIABLES
    currentStep,        \* "upload" | "configure"
    isUploading,        \* busy flag
    uploadSuccess,      \* success banner flag
    uploadError,        \* error banner text, NullError when null
    databaseStructure,  \* decoded parse payload, NullValue when null
    tableEntryCounts,   \* Record<string, number>: function on its keys
    enableEncryption,   \* encryption radio
    encryptionConfigs,  \* sequence of EncryptionConfig
    inflight,           \* handlers suspended at `await fetch`, in issue order
    response,           \* what the last resumed handler got from its fetch
    sent,               \* the request the latest step put on the network
    submitted           \* the form data of the latest submit event

\* the component's own state and its outstanding calls
pageState == <<currentStep, isUploading, uploadSuccess, uploadError,
               databaseStructure, tableEntryCounts, enableEncryption,
               encryptionConfigs, inflight, response>>

vars == <<currentStep, isUploading, uploadSuccess, uploadError,
          databaseStructure, tableEntryCounts, enableEncryption,
          encryptionConfigs, inflight, response, sent, submitted>>

-----------------------------------------------------------------------------
(* Bounds *)

\* the add button is not pressed once the list holds this many rows
MaxRules == 2
\* calls that may be outstanding at once before the model stops issuing more
MaxInFlight == 2

-----------------------------------------------------------------------------
(* JavaScript values *)

NullValue == [tag |-> "null"]
NullError == "<null>"
EmptyCounts == <<>>
\* the JSON encoding of an array, as against that of null
JsonArray(items) == [tag |-> "array", items |-> items]

Truthy(v) == v # NullValue

\* Number.prototype.toString for non-negative integers
Digits == <<"0", "1", "2", "3", "4", "5", "6", "7", "8", "9">>

RECURSIVE ToString(_)
ToString(n) ==
    IF n < 10 THEN Digits[n + 1]
    ELSE ToString(n \div 10) \o Digits[(n % 10) + 1]

\* parseInt(string): leading white space, optional sign, then the longest
\* run of decimal digits; NaN when there is no digit.
NaN == [nan |-> TRUE, val |-> 0]

IsDigit(c) == c \in {"0", "1", "2", "3", "4", "5", "6", "7", "8", "9"}

DigitVal(c) == CHOOSE d \in 0..9 : Digits[d + 1] = c

RECURSIVE TrimStart(_)
TrimStart(s) ==
    IF s # <<>> /\ Head(s) = " " THEN TrimStart(Tail(s)) ELSE s

RECURSIVE DigitRun(_)
DigitRun(s) ==
    IF s # <<>> /\ IsDigit(Head(s)) THEN <<Head(s)>> \o DigitRun(Tail(s))
    ELSE <<>>

RECURSIVE DigitsValue(_, _)
DigitsValue(ds, acc) ==
    IF ds = <<>> THEN acc
    ELSE DigitsValue(Tail(ds), acc * 10 + DigitVal(Head(ds)))

ParseInt(raw) ==
    LET s    == TrimStart(raw)
        neg  == s # <<>> /\ Head(s) = "-"
        body == IF s # <<>> /\ Head(s) \in {"-", "+"} THEN Tail(s) ELSE s
        run  == DigitRun(body)
    IN  IF run = <<>> THEN NaN
        ELSE [nan |-> FALSE,
              val |-> IF neg THEN 0 - DigitsValue(run, 0)
                      ELSE DigitsValue(run, 0)]

\* `x || 10`, the fallback of the input's displayed value, in place of
\* `x || 0` (faulty variant)
OrTen(n) == IF n.nan \/ n.val = 0 THEN 10 ELSE n.val

\* `x || 0` on a number: NaN and 0 are falsy
OrZero(n) == IF n.nan \/ n.val = 0 THEN 0 ELSE n.val

-----------------------------------------------------------------------------
(* Inputs *)

\* texts typed into an entry-count input, as character sequences
RawInputs ==
    {<<>>, <<"x">>, <<"-", "5">>, <<" ", "1", "0", "x">>, <<"0">>}

ENCRYPTION_ALGORITHMS ==
    <<"AES-256", "AES-128", "RSA-2048", "RSA-4096", "ChaCha20",
      "Twofish", "Blowfish", "DES", "3DES">>

\* the algorithms the user picks among
AlgorithmChoices == {ENCRYPTION_ALGORITHMS[1]}

Attr(n, t, cs) == [name |-> n, type |-> t, constraints |-> cs]

\* the spec's scenario payload
ShopStructure ==
    [tag |-> "object",
     databases |-> <<
        [name |-> "shop", tables |-> <<
            [name |-> "users",
             attributes |-> <<Attr("id", "integer", <<"primary_key">>)>>]>>]>>]

\* two databases, a table name shared across them
CrmStructure ==
    [tag |-> "object",
     databases |-> <<
        [name |-> "shop", tables |-> <<
            [name |-> "users",
             attributes |-> <<Attr("id", "integer", <<"primary_key">>)>>]>>],
        [name |-> "crm", tables |-> <<
            [name |-> "users",
             attributes |-> <<Attr("email", "varchar", <<>>)>>],
            [name |-> "orders",
             attributes |-> <<Attr("id", "integer", <<"primary_key">>)>>]>>]>>]

ValidStructures == {ShopStructure, CrmStructure}

\* a decoded object without the `databases` member
NoDatabasesObject == [tag |-> "object"]

\* what JSON.parse(responseData.data) can produce
DecodedValues == ValidStructures \cup {NullValue, NoDatabasesObject}

\* responseData.data: absent, or a string that is or is not JSON text
DataFields ==
    {[present |-> FALSE]}
    \cup {[present |-> TRUE, wellFormed |-> FALSE]}
    \cup {[present |-> TRUE, wellFormed |-> TRUE, value |-> v] :
            v \in DecodedValues}

ParseResponses ==
    {[type |-> "error", message |-> "Failed to fetch"]}
    \cup {[type |-> "http", status |-> 500,
           statusText |-> "Internal Server Error"]}
    \cup {[type |-> "http", status |-> 200, statusText |-> "OK",
           json |-> FALSE]}
    \cup {[type |-> "http", status |-> 200, statusText |-> "OK",
           json |-> TRUE, data |-> d] : d \in DataFields}

NoResponse == [type |-> "none"]

\* no fetch in this step; no submit event yet
NoRequest == [endpoint |-> "none"]
NoSubmit == [databaseType |-> "sql", sqlFile |-> "unset"]

GenerateResponses ==
    {[type |-> "error", message |-> "Failed to fetch"],
     [type |-> "http", status |-> 500,
      statusText |-> "Internal Server Error"],
     [type |-> "http", status |-> 200, statusText |-> "OK"]}

FormInputs ==
    [databaseType : {"sql", "nosql", "graph"},
     sqlFile : {"none", "valid", "empty"}]

-----------------------------------------------------------------------------
(* Database Structure Model: the derived reads *)

RECURSIVE FlattenTables(_)
FlattenTables(dbs) ==
    IF dbs = <<>> THEN <<>>
    ELSE Head(dbs).tables \o FlattenTables(Tail(dbs))

\* seq without the later occurrences of a value already in it
RECURSIVE Unique(_, _)
Unique(seq, seen) ==
    IF seq = <<>> THEN <<>>
    ELSE IF Head(seq) \in seen THEN Unique(Tail(seq), seen)
    ELSE <<Head(seq)>> \o Unique(Tail(seq), seen \cup {Head(seq)})

\* getTableNames giving each name once (faulty variant)
getTableNamesUnique(structure) ==
    IF ~Truthy(structure) THEN <<>>
    ELSE LET tables == FlattenTables(structure.databases)
         IN  Unique([i \in 1..Len(tables) |-> tables[i].name], {})

\* getTableNames: every table name, databases then tables in order
getTableNames(structure) ==
    IF ~Truthy(structure) THEN <<>>
    ELSE LET tables == FlattenTables(structure.databases)
         IN  [i \in 1..Len(tables) |-> tables[i].name]

RECURSIVE FirstTable(_, _)
FirstTable(tables, tableName) ==
    IF tables = <<>> THEN <<>>
    ELSE IF Head(tables).name = tableName THEN <<Head(tables)>>
    ELSE FirstTable(Tail(tables), tableName)

RECURSIVE Reverse(_)
Reverse(seq) ==
    IF seq = <<>> THEN <<>> ELSE Reverse(Tail(seq)) \o <<Head(seq)>>

\* getTableAttributes returning the last table of that name (faulty variant)
getTableAttributesLastMatch(structure, tableName) ==
    IF ~Truthy(structure) THEN <<>>
    ELSE LET found == FirstTable(Reverse(FlattenTables(structure.databases)),
                                 tableName)
         IN  IF found = <<>> THEN <<>>
             ELSE [i \in 1..Len(found[1].attributes) |->
                      found[1].attributes[i].name]

\* getTableAttributes: attribute names of the first table of that name
getTableAttributes(structure, tableName) ==
    IF ~Truthy(structure) THEN <<>>
    ELSE LET found == FirstTable(FlattenTables(structure.databases), tableName)
         IN  IF found = <<>> THEN <<>>
             ELSE [i \in 1..Len(found[1].attributes) |->
                      found[1].attributes[i].name]

Range(seq) == {seq[i] : i \in 1..Len(seq)}

\* { ...prev, [key]: value }
SetKey(prev, key, value) ==
    [k \in DOMAIN prev \cup {key} |-> IF k = key THEN value ELSE prev[k]]

\* the forEach loops that fill defaultCounts
RECURSIVE AssignDefaults(_, _)
AssignDefaults(tables, defaultCounts) ==
    IF tables = <<>> THEN defaultCounts
    ELSE AssignDefaults(Tail(tables),
                        SetKey(defaultCounts, Head(tables).name, 10))

\* DefaultCounts walking only the first database (faulty variant)
DefaultCountsFirstDatabase(parsedData) ==
    IF parsedData.databases = <<>> THEN EmptyCounts
    ELSE AssignDefaults(Head(parsedData.databases).tables, EmptyCounts)

DefaultCounts(parsedData) ==
    AssignDefaults(FlattenTables(parsedData.databases), EmptyCounts)

-----------------------------------------------------------------------------
(* Initial state: the useState defaults *)

BlankRule(id) == [id |-> id, tableName |-> "", attribute |-> "", algorithm |-> ""]

DefaultConfigs == <<BlankRule("1")>>

Init ==
    /\ currentStep = "upload"
    /\ isUploading = FALSE
    /\ uploadSuccess = FALSE
    /\ uploadError = NullError
    /\ databaseStructure = NullValue
    /\ tableEntryCounts = EmptyCounts
    /\ enableEncryption = FALSE
    /\ encryptionConfigs = DefaultConfigs
    /\ inflight = <<>>
    /\ response = NoResponse
    /\ sent = NoRequest
    /\ submitted = NoSubmit

\* what the page renders, hence which controls can be used
UploadView == currentStep = "upload"
ConfigureView == currentStep = "configure" /\ Truthy(databaseStructure)

RemoveAt(seq, i) == SubSeq(seq, 1, i - 1) \o SubSeq(seq, i + 1, Len(seq))

-----------------------------------------------------------------------------
(* Configure step: synchronous handlers *)

\* the registry the setter of handleTableEntryCountChange computes from prev
UpdatedCounts(prev, tableName, count) ==
    LET numCount == OrZero(ParseInt(count))
    IN  SetKey(prev, tableName, numCount)

handleTableEntryCountChange(tableName, count) ==
    /\ ConfigureView
    /\ tableEntryCounts' = UpdatedCounts(tableEntryCounts, tableName, count)
    /\ UNCHANGED <<currentStep, isUploading, uploadSuccess, uploadError,
                   databaseStructure, enableEncryption, encryptionConfigs,
                   inflight, response, submitted>>
    /\ sent' = NoRequest

\* setEnableEncryption putting the default list back when turned off
\* (faulty variant)
setEnableEncryptionClearsRules(enabled) ==
    /\ ConfigureView
    /\ enableEncryption' = enabled
    /\ encryptionConfigs' = IF enabled THEN encryptionConfigs
                            ELSE DefaultConfigs
    /\ UNCHANGED <<currentStep, isUploading, uploadSuccess, uploadError,
                   databaseStructure, tableEntryCounts, inflight, response,
                   submitted>>
    /\ sent' = NoRequest

setEnableEncryption(enabled) ==
    /\ ConfigureView
    /\ enableEncryption' = enabled
    /\ UNCHANGED <<currentStep, isUploading, uploadSuccess, uploadError,
                   databaseStructure, tableEntryCounts, encryptionConfigs,
                   inflight, response, submitted>>
    /\ sent' = NoRequest

\* prev.map(config => config.id === id ? {...config, [field]: value} : config)
UpdatedConfigs(prev, id, field, value) ==
    [i \in 1..Len(prev) |->
        IF prev[i].id = id THEN [prev[i] EXCEPT ![field] = value]
        ELSE prev[i]]

handleEncryptionChange(id, field, value) ==
    /\ ConfigureView
    /\ enableEncryption
    /\ encryptionConfigs' = UpdatedConfigs(encryptionConfigs, id, field, value)
    /\ UNCHANGED <<currentStep, isUploading, uploadSuccess, uploadError,
                   databaseStructure, tableEntryCounts, enableEncryption,
                   inflight, response, submitted>>
    /\ sent' = NoRequest

\* the three selects of row i, with the options each offers
selectTable(i) ==
    /\ ConfigureView
    /\ \E value \in Range(getTableNames(databaseStructure)) :
        handleEncryptionChange(encryptionConfigs[i].id, "tableName", value)

selectAttribute(i) ==
    /\ ConfigureView
    /\ encryptionConfigs[i].tableName # ""
    /\ \E value \in Range(getTableAttributes(databaseStructure,
                                             encryptionConfigs[i].tableName)) :
        handleEncryptionChange(encryptionConfigs[i].id, "attribute", value)

selectAlgorithm(i) ==
    \E value \in AlgorithmChoices :
        handleEncryptionChange(encryptionConfigs[i].id, "algorithm", value)

AddedConfigs(prev) ==
    LET newId == ToString(Len(prev) + 1)
    IN  Append(prev, BlankRule(newId))

addEncryptionRow ==
    /\ ConfigureView
    /\ enableEncryption
    /\ Len(encryptionConfigs) < MaxRules
    /\ encryptionConfigs' = AddedConfigs(encryptionConfigs)
    /\ UNCHANGED <<currentStep, isUploading, uploadSuccess, uploadError,
                   databaseStructure, tableEntryCounts, enableEncryption,
                   inflight, response, submitted>>
    /\ sent' = NoRequest

\* prev.filter(config => config.id !== id)
RECURSIVE FilterOut(_, _)
FilterOut(prev, id) ==
    IF prev = <<>> THEN <<>>
    ELSE IF Head(prev).id # id THEN <<Head(prev)>> \o FilterOut(Tail(prev), id)
    ELSE FilterOut(Tail(prev), id)

\* removeEncryptionRow without its length test (faulty variant)
RemovedConfigsUnguarded(prev, id) == FilterOut(prev, id)

RemovedConfigs(prev, id) ==
    IF Len(prev) > 1 THEN FilterOut(prev, id) ELSE prev

removeEncryptionRow(id) ==
    /\ ConfigureView
    /\ enableEncryption
    /\ encryptionConfigs' = RemovedConfigs(encryptionConfigs, id)
    /\ UNCHANGED <<currentStep, isUploading, uploadSuccess, uploadError,
                   databaseStructure, tableEntryCounts, enableEncryption,
                   inflight, response, submitted>>
    /\ sent' = NoRequest

\* resetToUpload with the two status setters left out (faulty variant)
resetToUploadKeepsStatus ==
    /\ ConfigureView
    /\ currentStep' = "upload"
    /\ databaseStructure' = NullValue
    /\ tableEntryCounts' = EmptyCounts
    /\ enableEncryption' = FALSE
    /\ encryptionConfigs' = DefaultConfigs
    /\ UNCHANGED <<uploadSuccess, uploadError, isUploading, inflight, response, submitted>>
    /\ sent' = NoRequest

\* resetToUpload with setTableEntryCounts({}) left out (faulty variant)
resetToUploadKeepsCounts ==
    /\ ConfigureView
    /\ currentStep' = "upload"
    /\ databaseStructure' = NullValue
    /\ enableEncryption' = FALSE
    /\ encryptionConfigs' = DefaultConfigs
    /\ uploadSuccess' = FALSE
    /\ uploadError' = NullError
    /\ UNCHANGED <<tableEntryCounts, isUploading, inflight, response,
                   submitted>>
    /\ sent' = NoRequest

\* resetToUpload with the two encryption setters left out (faulty variant)
resetToUploadKeepsRules ==
    /\ ConfigureView
    /\ currentStep' = "upload"
    /\ databaseStructure' = NullValue
    /\ tableEntryCounts' = EmptyCounts
    /\ uploadSuccess' = FALSE
    /\ uploadError' = NullError
    /\ UNCHANGED <<enableEncryption, encryptionConfigs, isUploading,
                   inflight, response, submitted>>
    /\ sent' = NoRequest

resetToUpload ==
    /\ ConfigureView
    /\ currentStep' = "upload"
    /\ databaseStructure' = NullValue
    /\ tableEntryCounts' = EmptyCounts
    /\ enableEncryption' = FALSE
    /\ encryptionConfigs' = DefaultConfigs
    /\ uploadSuccess' = FALSE
    /\ uploadError' = NullError
    /\ UNCHANGED <<isUploading, inflight, response, submitted>>
    /\ sent' = NoRequest

-----------------------------------------------------------------------------
(* Upload step: form submission and the parse call *)

\* formSchema with sqlFile marked .optional() (faulty variant)
formSchemaOptionalFile(data) ==
    /\ data.databaseType \in {"sql", "nosql", "graph"}
    /\ data.sqlFile \in {"valid", "none"}

\* formSchema, as handleSubmit applies it before calling onSubmit
formSchema(data) ==
    /\ data.databaseType \in {"sql", "nosql", "graph"}
    /\ data.sqlFile = "valid"

\* response.ok
ResponseOk(r) == r.status >= 200 /\ r.status <= 299

\* The try block of onSubmit after the fetch settles with r: whether it
\* threw and with what message, and which setters ran before that.
ParseOutcome(r) ==
    LET threw(msg, structureSet, value) ==
            [threw |-> TRUE, message |-> msg, structureSet |-> structureSet,
             parsedData |-> value, configured |-> FALSE]
    IN  IF r.type = "error" THEN threw(r.message, FALSE, NullValue)
        ELSE IF ~ResponseOk(r)
            THEN threw("Upload failed: " \o r.statusText, FALSE, NullValue)
        ELSE IF ~r.json
            THEN threw("Unexpected token < in JSON at position 0",
                       FALSE, NullValue)
        ELSE IF ~r.data.present
            THEN [threw |-> FALSE, message |-> "", structureSet |-> FALSE,
                  parsedData |-> NullValue, configured |-> FALSE]
        ELSE IF ~r.data.wellFormed
            THEN threw("Unexpected end of JSON input", FALSE, NullValue)
        ELSE IF r.data.value = NullValue
            THEN threw("Cannot read properties of null (reading 'databases')",
                       TRUE, r.data.value)
        ELSE IF "databases" \notin DOMAIN r.data.value
            THEN threw("Cannot read properties of undefined (reading 'forEach')",
                       TRUE, r.data.value)
        ELSE [threw |-> FALSE, message |-> "", structureSet |-> TRUE,
              parsedData |-> r.data.value, configured |-> TRUE]

\* the multipart body of the parse request
ParseRequest(data) == [endpoint |-> "parse", file |-> data.sqlFile]

\* onSubmit with setUploadSuccess(false) left out (faulty variant)
onSubmitKeepsSuccess(data) ==
    IF data.databaseType # "sql"
    THEN UNCHANGED pageState /\ sent' = NoRequest
    ELSE /\ Len(inflight) < MaxInFlight
         /\ isUploading' = TRUE
         /\ uploadError' = NullError
         /\ databaseStructure' = NullValue
         /\ inflight' = Append(inflight, "onSubmit")
         /\ response' = NoResponse
         /\ sent' = ParseRequest(data)
         /\ UNCHANGED <<currentStep, uploadSuccess, tableEntryCounts,
                        enableEncryption, encryptionConfigs>>

\* onSubmit without the test of databaseType (faulty variant)
onSubmitAnyType(data) ==
    /\ Len(inflight) < MaxInFlight
    /\ isUploading' = TRUE
    /\ uploadError' = NullError
    /\ uploadSuccess' = FALSE
    /\ databaseStructure' = NullValue
    /\ inflight' = Append(inflight, "onSubmit")
    /\ response' = NoResponse
    /\ sent' = ParseRequest(data)
    /\ UNCHANGED <<currentStep, tableEntryCounts, enableEncryption,
                   encryptionConfigs>>

onSubmit(data) ==
    IF data.databaseType # "sql"
    THEN UNCHANGED pageState /\ sent' = NoRequest
    ELSE /\ Len(inflight) < MaxInFlight
         /\ isUploading' = TRUE
         /\ uploadError' = NullError
         /\ uploadSuccess' = FALSE
         /\ databaseStructure' = NullValue
         /\ inflight' = Append(inflight, "onSubmit")
         /\ response' = NoResponse
         /\ sent' = ParseRequest(data)
         /\ UNCHANGED <<currentStep, tableEntryCounts, enableEncryption,
                        encryptionConfigs>>

\* handleSubmit with the button left enabled while busy (faulty variant)
handleSubmitWhileBusy(data) ==
    /\ UploadView
    /\ submitted' = data
    /\ IF formSchema(data) THEN onSubmit(data)
       ELSE UNCHANGED pageState /\ sent' = NoRequest

\* the submit event of the upload form; the button is disabled while busy
handleSubmit(data) ==
    /\ UploadView
    /\ ~isUploading
    /\ submitted' = data
    /\ IF formSchema(data) THEN onSubmit(data)
       ELSE UNCHANGED pageState /\ sent' = NoRequest

\* onSubmitResume with setIsUploading(false) at the end of the try block
\* and not in a finally block (faulty variant)
onSubmitResumeBusyAfterThrow(k, r) ==
    /\ k \in 1..Len(inflight)
    /\ inflight[k] = "onSubmit"
    /\ inflight' = RemoveAt(inflight, k)
    /\ response' = r
    /\ LET out == ParseOutcome(r)
       IN  /\ databaseStructure' =
                  IF out.structureSet THEN out.parsedData ELSE databaseStructure
           /\ tableEntryCounts' =
                  IF out.configured THEN DefaultCounts(out.parsedData)
                  ELSE tableEntryCounts
           /\ currentStep' = IF out.configured THEN "configure" ELSE currentStep
           /\ uploadSuccess' = IF out.threw THEN uploadSuccess ELSE TRUE
           /\ uploadError' = IF out.threw THEN out.message ELSE uploadError
           /\ isUploading' = IF out.threw THEN isUploading ELSE FALSE
    /\ sent' = NoRequest
    /\ UNCHANGED <<enableEncryption, encryptionConfigs, submitted>>

\* the fetch of the k-th outstanding call settles and onSubmit runs on
onSubmitResume(k, r) ==
    /\ k \in 1..Len(inflight)
    /\ inflight[k] = "onSubmit"
    /\ inflight' = RemoveAt(inflight, k)
    /\ response' = r
    /\ LET out == ParseOutcome(r)
       IN  /\ databaseStructure' =
                  IF out.structureSet THEN out.parsedData ELSE databaseStructure
           /\ tableEntryCounts' =
                  IF out.configured THEN DefaultCounts(out.parsedData)
                  ELSE tableEntryCounts
           /\ currentStep' = IF out.configured THEN "configure" ELSE currentStep
           /\ uploadSuccess' = IF out.threw THEN uploadSuccess ELSE TRUE
           /\ uploadError' = IF out.threw THEN out.message ELSE uploadError
    /\ isUploading' = FALSE
    /\ sent' = NoRequest
    /\ UNCHANGED <<enableEncryption, encryptionConfigs, submitted>>

\* the value the entry-count input of a table shows:
\* tableEntryCounts[table.name] || 10
DisplayedCount(tableName) ==
    IF tableName \notin DOMAIN tableEntryCounts THEN 10
    ELSE IF tableEntryCounts[tableName] = 0 THEN 10
    ELSE tableEntryCounts[tableName]

-----------------------------------------------------------------------------
(* Configure step: the generate call *)

\* generateData with the rules sent whatever the flag (faulty variant)
GeneratePayloadAlwaysRules ==
    [databaseStructure |-> databaseStructure,
     tableEntryCounts |-> tableEntryCounts,
     encryption |-> JsonArray(encryptionConfigs)]

\* generateData, the JSON body of the generate request
GeneratePayload ==
    [databaseStructure |-> databaseStructure,
     tableEntryCounts |-> tableEntryCounts,
     encryption |-> IF enableEncryption
                    THEN JsonArray(encryptionConfigs)
                    ELSE NullValue]

handleGenerateData ==
    /\ ConfigureView
    /\ ~isUploading
    /\ Truthy(databaseStructure)
    /\ Len(inflight) < MaxInFlight
    /\ isUploading' = TRUE
    /\ uploadError' = NullError
    /\ inflight' = Append(inflight, "handleGenerateData")
    /\ response' = NoResponse
    /\ sent' = [endpoint |-> "generate", body |-> GeneratePayload]
    /\ UNCHANGED <<currentStep, uploadSuccess, databaseStructure,
                   tableEntryCounts, enableEncryption, encryptionConfigs,
                   submitted>>

\* GenerateThrows with the `!response.ok` test left out (faulty variant)
GenerateThrowsOnlyOnReject(r) == r.type = "error"

\* the try block throws: fetch rejected, or `!response.ok`
GenerateThrows(r) == r.type = "error" \/ ~ResponseOk(r)

GenerateMessage(r) ==
    IF r.type = "error" THEN r.message
    ELSE "Data generation failed: " \o r.statusText

\* GenerateSucceeded with setTableEntryCounts({}) left out (faulty variant)
GenerateSucceededKeepsCounts ==
    /\ uploadSuccess' = TRUE
    /\ currentStep' = "upload"
    /\ databaseStructure' = NullValue
    /\ enableEncryption' = FALSE
    /\ encryptionConfigs' = DefaultConfigs
    /\ UNCHANGED <<uploadError, tableEntryCounts>>

\* the rest of the try block once the response is ok
GenerateSucceeded ==
    /\ uploadSuccess' = TRUE
    /\ currentStep' = "upload"
    /\ databaseStructure' = NullValue
    /\ tableEntryCounts' = EmptyCounts
    /\ enableEncryption' = FALSE
    /\ encryptionConfigs' = DefaultConfigs
    /\ UNCHANGED uploadError

\* the catch block
GenerateFailed(r) ==
    /\ uploadError' = GenerateMessage(r)
    /\ UNCHANGED <<currentStep, uploadSuccess, databaseStructure,
                   tableEntryCounts, enableEncryption, encryptionConfigs>>

\* handleGenerateDataResume fetching again after a failure (faulty variant)
handleGenerateDataRetries(k, r) ==
    /\ k \in 1..Len(inflight)
    /\ inflight[k] = "handleGenerateData"
    /\ response' = r
    /\ UNCHANGED submitted
    /\ IF GenerateThrows(r)
       THEN /\ sent' = [endpoint |-> "generate", body |-> GeneratePayload]
            /\ UNCHANGED <<currentStep, isUploading, uploadSuccess,
                           uploadError, databaseStructure, tableEntryCounts,
                           enableEncryption, encryptionConfigs, inflight>>
       ELSE /\ inflight' = RemoveAt(inflight, k)
            /\ GenerateSucceeded
            /\ isUploading' = FALSE
            /\ sent' = NoRequest

\* the fetch of the k-th outstanding call settles and the handler runs on
handleGenerateDataResume(k, r) ==
    /\ k \in 1..Len(inflight)
    /\ inflight[k] = "handleGenerateData"
    /\ inflight' = RemoveAt(inflight, k)
    /\ response' = r
    /\ IF GenerateThrows(r) THEN GenerateFailed(r) ELSE GenerateSucceeded
    /\ isUploading' = FALSE
    /\ sent' = NoRequest
    /\ UNCHANGED submitted

-----------------------------------------------------------------------------

\* the rows and the tables the configure view shows
Rows == IF ConfigureView /\ enableEncryption THEN 1..Len(encryptionConfigs) ELSE {}

ShownTables ==
    IF ConfigureView THEN Range(getTableNames(databaseStructure)) ELSE {}

Next ==
    \/ \E data \in FormInputs : handleSubmit(data)
    \/ \E k \in 1..MaxInFlight, r \in ParseResponses : onSubmitResume(k, r)
    \/ \E t \in ShownTables, raw \in RawInputs :
           handleTableEntryCountChange(t, raw)
    \/ \E enabled \in BOOLEAN : setEnableEncryption(enabled)
    \/ \E i \in Rows : selectTable(i)
    \/ \E i \in Rows : selectAttribute(i)
    \/ \E i \in Rows : selectAlgorithm(i)
    \/ addEncryptionRow
    \/ \E i \in Rows : removeEncryptionRow(encryptionConfigs[i].id)
    \/ handleGenerateData
    \/ \E k \in 1..MaxInFlight, r \in GenerateResponses :
           handleGenerateDataResume(k, r)
    \/ resetToUpload

Spec == Init /\ [][Next]_vars

\* the fetch of an outstanding call settles, with a response or a rejection
FetchSettles ==
    \/ \E k \in 1..MaxInFlight, r \in ParseResponses : onSubmitResume(k, r)
    \/ \E k \in 1..MaxInFlight, r \in GenerateResponses :
           handleGenerateDataResume(k, r)

\* the backend answers every request in the end
BackendAnswers == WF_vars(FetchSettles)

FairSpec == Spec /\ BackendAnswers

-----------------------------------------------------------------------------
(* Properties *)

\* the table names of a decoded structure, as a set
TableNameSet(structure) ==
    UNION {{structure.databases[d].tables[t].name :
                t \in 1..Len(structure.databases[d].tables)} :
           d \in 1..Len(structure.databases)}

BlankDefaultList ==
    <<[id |-> "1", tableName |-> "", attribute |-> "", algorithm |-> ""]>>

\* a step that resumes a suspended call of the named handler
Completes(handler) ==
    \E k \in 1..Len(inflight) :
        /\ inflight[k] = handler
        /\ inflight' = RemoveAt(inflight, k)

\* a step that issues a call of the named handler
Issues(handler) == inflight' = Append(inflight, handler)

IsFailure(r) == r.type = "error" \/ (r.type = "http" /\ r.status \notin 200..299)

ParseSucceeded(r) ==
    /\ r.type = "http"
    /\ r.status \in 200..299
    /\ "json" \in DOMAIN r
    /\ r.json
    /\ r.data.present
    /\ r.data.wellFormed
    /\ r.data.value \in ValidStructures

\* C1: on the step from Upload to Configure the Entry Count Registry gets
\* exactly the table names of the decoded structure as keys, each with 10.
C1_RegistryDefaultsOnConfigure ==
    [][(currentStep = "upload" /\ currentStep' = "configure") =>
         /\ DOMAIN tableEntryCounts' = TableNameSet(databaseStructure')
         /\ \A t \in DOMAIN tableEntryCounts' : tableEntryCounts'[t] = 10]_vars

\* C1 witness: Configure entered with the two-database payload, three tables
\* under two names, and the registry holding 10 for both names.
C1_Witness ==
    /\ currentStep = "configure"
    /\ ParseSucceeded(response)
    /\ databaseStructure = CrmStructure
    /\ DOMAIN tableEntryCounts = {"users", "orders"}
    /\ \A t \in DOMAIN tableEntryCounts : tableEntryCounts[t] = 10

\* C2: whenever encryption is enabled the Encryption Rule list holds at
\* least one rule.
C2_AtLeastOneRuleWhileEnabled ==
    enableEncryption => Len(encryptionConfigs) >= 1

\* C3: no two rules of the Encryption Rule list share an id.
C3_UniqueRuleIds ==
    \A i, j \in 1..Len(encryptionConfigs) :
        i # j => encryptionConfigs[i].id # encryptionConfigs[j].id

\* C4: in Configure, adding a rule and then removing the rule with the new
\* id gives back the list as it was.
C4_AddThenRemoveRestores ==
    ConfigureView =>
        LET added == AddedConfigs(encryptionConfigs)
            newId == added[Len(added)].id
        IN  RemovedConfigs(added, newId) = encryptionConfigs

\* C5: every value of the Entry Count Registry is an integer >= 0.
C5_NonNegativeCounts ==
    \A t \in DOMAIN tableEntryCounts : tableEntryCounts[t] >= 0

\* C6: issuing the generate call happens in Configure and changes none of
\* the structure, the registry, the rules and the encryption flag; a
\* completion of it that failed changes none of them either, leaves the
\* step alone and records an error message.
C6_FailedGenerateKeepsEdits ==
    [][/\ Issues("handleGenerateData") =>
            /\ currentStep = "configure"
            /\ UNCHANGED <<currentStep, databaseStructure, tableEntryCounts,
                           encryptionConfigs, enableEncryption>>
       /\ (Completes("handleGenerateData") /\ IsFailure(response')) =>
            /\ UNCHANGED <<currentStep, databaseStructure, tableEntryCounts,
                           encryptionConfigs, enableEncryption>>
            /\ uploadError' # NullError]_vars

\* C6 witness: a generate call answered 500 with the workflow in Configure,
\* an edited registry, encryption on with two rules, and the error shown.
C6_Witness ==
    /\ currentStep = "configure"
    /\ response = [type |-> "http", status |-> 500,
                   statusText |-> "Internal Server Error"]
    /\ ~isUploading
    /\ uploadError = "Data generation failed: Internal Server Error"
    /\ \E t \in DOMAIN tableEntryCounts : tableEntryCounts[t] # 10
    /\ enableEncryption
    /\ Len(encryptionConfigs) = 2

\* C7: while the workflow is in Upload there is no DatabaseStructure and the
\* Entry Count Registry is empty.
C7_UploadHoldsNothing ==
    currentStep = "upload" =>
        /\ databaseStructure = NullValue
        /\ DOMAIN tableEntryCounts = {}

\* C8: after a parse answer with a success status whose `data` is absent or
\* malformed, an error is recorded, no success is, and the step is Upload.
C8_MalformedPayloadFails ==
    (/\ response.type = "http"
     /\ response.status \in 200..299
     /\ "json" \in DOMAIN response
     /\ ~ParseSucceeded(response)) =>
        /\ uploadError # NullError
        /\ ~uploadSuccess
        /\ currentStep = "upload"

\* C9: a reset step (Configure to Upload with no call completing) ends with
\* no structure, an empty registry, encryption off, the single blank default
\* rule, and neither status set.
C9_ResetYieldsCleanUpload ==
    [][(currentStep = "configure" /\ currentStep' = "upload"
            /\ inflight' = inflight) =>
         /\ databaseStructure' = NullValue
         /\ DOMAIN tableEntryCounts' = {}
         /\ ~enableEncryption'
         /\ encryptionConfigs' = BlankDefaultList
         /\ ~uploadSuccess'
         /\ uploadError' = NullError]_vars

\* C9 witness: back in Upload after a generate call had failed: only a reset
\* leads there, and the error it had recorded is gone.
C9_Witness ==
    /\ currentStep = "upload"
    /\ response = [type |-> "http", status |-> 500,
                   statusText |-> "Internal Server Error"]
    /\ uploadError = NullError
    /\ ~uploadSuccess
    /\ encryptionConfigs = BlankDefaultList

\* C10: once a generate call has succeeded the workflow is in Upload with no
\* structure, an empty registry, encryption off and the single blank rule.
C10_GenerateSuccessResets ==
    response = [type |-> "http", status |-> 200, statusText |-> "OK"] =>
        /\ currentStep = "upload"
        /\ databaseStructure = NullValue
        /\ DOMAIN tableEntryCounts = {}
        /\ ~enableEncryption
        /\ encryptionConfigs = BlankDefaultList

\* C10 witness: a generate call answered 200, success shown, back in Upload.
C10_Witness ==
    /\ response = [type |-> "http", status |-> 200, statusText |-> "OK"]
    /\ uploadSuccess
    /\ currentStep = "upload"
    /\ ~isUploading

\* C11: the workflow starts in Upload; a step from Upload to Configure is
\* the completion of a parse call that succeeded; a step from Configure to
\* Upload is resetToUpload or the completion of a generate call that
\* succeeded.
C11_StepChangesOnlyOnParseResetGenerate ==
    /\ currentStep = "upload"
    /\ [][/\ (currentStep = "upload" /\ currentStep' = "configure") =>
               (Completes("onSubmit") /\ ParseSucceeded(response'))
          /\ (currentStep = "configure" /\ currentStep' = "upload") =>
               \/ resetToUpload
               \/ (Completes("handleGenerateData") /\ ~IsFailure(response'))
          /\ currentStep' \in {"upload", "configure"}]_vars

\* C11 witness: Configure entered by the completion of a parse call that
\* succeeded.
C11_Witness ==
    /\ currentStep = "configure"
    /\ ParseSucceeded(response)
    /\ uploadSuccess
    /\ ~isUploading
    /\ inflight = <<>>

\* C12: at most one backend call is outstanding, and the busy flag is true
\* exactly while one is.
C12_OneCallAndBusyWhileOutstanding ==
    /\ Len(inflight) <= 1
    /\ isUploading <=> (inflight # <<>>)

\* C12 witness: a generate call still outstanding after a reset: the upload
\* view is back, busy, and its submit control cannot start a parse.
C12_Witness ==
    /\ currentStep = "upload"
    /\ inflight = <<"handleGenerateData">>
    /\ isUploading
    /\ \A data \in FormInputs : ~ENABLED handleSubmit(data)

\* C13: the generate request carries the current structure, the current
\* registry, and as `encryption` the current rule list when encryption is
\* enabled and null when it is not.
C13_GeneratePayloadFollowsFlag ==
    sent.endpoint = "generate" =>
        /\ sent.body.databaseStructure = databaseStructure
        /\ sent.body.tableEntryCounts = tableEntryCounts
        /\ enableEncryption =>
               sent.body.encryption = JsonArray(encryptionConfigs)
        /\ ~enableEncryption => sent.body.encryption = NullValue

\* C13 witness: a generate request sent with encryption off while the list
\* holds a rule with selections; its `encryption` is null.
C13_Witness ==
    /\ sent.endpoint = "generate"
    /\ ~enableEncryption
    /\ \E i \in 1..Len(encryptionConfigs) : encryptionConfigs[i].tableName # ""
    /\ sent.body.encryption = NullValue
    /\ \E t \in DOMAIN tableEntryCounts : sent.body.tableEntryCounts[t] # 10

\* the ids of a rule list, in order
RuleIds(list) == [i \in 1..Len(list) |-> list[i].id]

\* C14: an id that belonged to a removed rule is not assigned again by the
\* next addEncryptionRow, and the rules that stay keep their ids: from any
\* list reached in a session, removing a rule and then adding one gives the
\* new rule an id other than the removed one, after the ids that stayed.
C14_RemovedIdNotReused ==
    \A i \in 1..Len(encryptionConfigs) :
        LET removed == encryptionConfigs[i].id
            after == RemovedConfigs(encryptionConfigs, removed)
            added == AddedConfigs(after)
        IN  Len(after) < Len(encryptionConfigs) =>
                /\ added[Len(added)].id # removed
                /\ SubSeq(RuleIds(added), 1, Len(after)) = RuleIds(after)

\* ids a remove call may be given: those generated so far, and one never used
RemoveIds == {ToString(n) : n \in 1..(MaxRules + 1)}

\* C15: with encryption enabled and exactly one rule in the list,
\* removeEncryptionRow leaves the list as it is, whatever id it is given.
C15_RemoveOnSingleRuleIsNoOp ==
    (enableEncryption /\ Len(encryptionConfigs) = 1) =>
        \A id \in RemoveIds \cup {encryptionConfigs[1].id} :
            RemovedConfigs(encryptionConfigs, id) = encryptionConfigs

\* C15 witness: Configure, encryption on, one rule left with a table chosen,
\* and a remove call with that rule's own id can be made.
C15_Witness ==
    /\ ConfigureView
    /\ enableEncryption
    /\ Len(encryptionConfigs) = 1
    /\ encryptionConfigs[1].tableName # ""
    /\ ENABLED removeEncryptionRow(encryptionConfigs[1].id)

\* a rule with no table, attribute or algorithm chosen
IsBlank(rule) ==
    rule.tableName = "" /\ rule.attribute = "" /\ rule.algorithm = ""

\* C16: a step that turns encryption on while the rule list is empty leaves
\* the list holding exactly one rule, a blank one.
C16_EnableSeedsEmptyList ==
    [][(~enableEncryption /\ enableEncryption' /\ encryptionConfigs = <<>>) =>
          /\ Len(encryptionConfigs') = 1
          /\ IsBlank(encryptionConfigs'[1])]_vars

\* the fields the selects of a row edit, and values to give them
RuleFields == {"tableName", "attribute", "algorithm"}
UpdateValues == {"users", "email"} \cup AlgorithmChoices

\* rule `after` is rule `before` with at most the named field replaced
OnlyFieldReplaced(before, after, field, value) ==
    /\ after[field] = value
    /\ \A f \in DOMAIN before : f # field => after[f] = before[f]

\* C17: handleEncryptionChange(id, field, value), applied to any list the
\* page reaches, keeps the length and the order, changes one rule at most,
\* that rule carries the id, only its named field is replaced (a chosen
\* attribute stays when tableName is replaced), and with no matching id the
\* list is unchanged.
C17_UpdateTouchesOneRuleOneField ==
    \A id \in RemoveIds, field \in RuleFields, value \in UpdateValues :
        LET prev == encryptionConfigs
            next == UpdatedConfigs(prev, id, field, value)
            changed == {i \in 1..Len(prev) : next[i] # prev[i]}
        IN  /\ Len(next) = Len(prev)
            /\ RuleIds(next) = RuleIds(prev)
            /\ Cardinality(changed) <= 1
            /\ \A i \in changed :
                   /\ prev[i].id = id
                   /\ OnlyFieldReplaced(prev[i], next[i], field, value)
            /\ (\A i \in 1..Len(prev) : prev[i].id # id) => next = prev

\* C18: the completion of a parse call whose answer is a non-success status
\* or a failed connection records an error message and no success, leaves
\* the workflow in Upload with no structure and an empty registry, and
\* clears the busy flag.
C18_FailedParseStaysInUpload ==
    [][(Completes("onSubmit") /\ IsFailure(response')) =>
          /\ uploadError' # NullError
          /\ ~uploadSuccess'
          /\ currentStep' = "upload"
          /\ databaseStructure' = NullValue
          /\ DOMAIN tableEntryCounts' = {}
          /\ ~isUploading']_vars

\* C18 witness: the parse endpoint answered 500; the error is shown in
\* Upload and the page is no longer busy.
C18_Witness ==
    /\ currentStep = "upload"
    /\ response.type = "http"
    /\ response.status = 500
    /\ uploadError = "Upload failed: Internal Server Error"
    /\ ~uploadSuccess
    /\ ~isUploading

\* C19: a submit of the upload form without the schema file sends no
\* request and changes nothing of the page: the busy flag stays false and
\* the workflow stays in Upload.
C19_SubmitWithoutFileDoesNothing ==
    [][\A data \in FormInputs :
          (data.sqlFile = "none" /\ handleSubmit(data)) =>
              /\ sent' = NoRequest
              /\ inflight' = inflight
              /\ UNCHANGED pageState
              /\ ~isUploading'
              /\ currentStep' = "upload"]_vars

\* C19 witness: the latest submit was for SQL with no file chosen; nothing
\* was sent and the page is idle in Upload.
C19_Witness ==
    /\ submitted.databaseType = "sql"
    /\ submitted.sqlFile = "none"
    /\ sent = NoRequest
    /\ inflight = <<>>
    /\ ~isUploading
    /\ currentStep = "upload"

\* a raw text with no digit in it: the empty string, or non-digit text
NonNumeric(raw) == \A i \in 1..Len(raw) : ~IsDigit(raw[i])

\* C20: handleTableEntryCountChange with a non-numeric raw text, applied to
\* any registry the page reaches, stores 0 for the named table and leaves
\* the entries of all other tables as they were.
C20_NonNumericCountBecomesZero ==
    \A t \in ShownTables, raw \in RawInputs :
        NonNumeric(raw) =>
            LET next == UpdatedCounts(tableEntryCounts, t, raw)
            IN  /\ DOMAIN next = DOMAIN tableEntryCounts \cup {t}
                /\ next[t] = 0
                /\ \A u \in DOMAIN tableEntryCounts \ {t} :
                       next[u] = tableEntryCounts[u]

\* C20 witness: in Configure one table's count has become 0 while another
\* table still has its default.
C20_Witness ==
    /\ ConfigureView
    /\ \E t, u \in DOMAIN tableEntryCounts :
           /\ t # u
           /\ tableEntryCounts[t] = 0
           /\ tableEntryCounts[u] = 10
    /\ \E raw \in RawInputs : NonNumeric(raw) /\ OrZero(ParseInt(raw)) = 0

\* C21: no registry key outlives its session: in Upload (at the start and
\* after every reset or successful generate) the registry is empty, in
\* Configure its keys are exactly the table names of the structure on
\* display, and the completion of a successful parse, the first or a later
\* one, leaves exactly the names of the parsed structure, each with 10.
C21_NoStaleRegistryKeys ==
    /\ [](/\ currentStep = "upload" => tableEntryCounts = EmptyCounts
          /\ currentStep = "configure" =>
                 DOMAIN tableEntryCounts = TableNameSet(databaseStructure))
    /\ [][(Completes("onSubmit") /\ ParseSucceeded(response')) =>
             /\ databaseStructure' = response'.data.value
             /\ tableEntryCounts' =
                    [t \in TableNameSet(response'.data.value) |-> 10]]_vars

\* C21 witness: a session on the two-database structure has been left by
\* resetToUpload (the last answer received is still that parse's): the
\* registry is empty, nothing is on display, and a next parse can be
\* submitted.
C21_Witness ==
    /\ currentStep = "upload"
    /\ ParseSucceeded(response)
    /\ response.data.value = CrmStructure
    /\ tableEntryCounts = EmptyCounts
    /\ databaseStructure = NullValue
    /\ ENABLED handleSubmit([databaseType |-> "sql", sqlFile |-> "valid"])

\* the positions <<database, table>> of the tables with that name
TablePositions(structure, tableName) ==
    UNION {{<<dbIdx, tblIdx>> :
                tblIdx \in {n \in 1..Len(structure.databases[dbIdx].tables) :
                     structure.databases[dbIdx].tables[n].name = tableName}} :
           dbIdx \in 1..Len(structure.databases)}

\* position p comes no later than q, databases first, then tables
NoLater(p, q) == p[1] < q[1] \/ (p[1] = q[1] /\ p[2] <= q[2])

AttributeNames(table) ==
    [i \in 1..Len(table.attributes) |-> table.attributes[i].name]

\* names the attribute select may be asked about: those of the structure,
\* the blank sentinel, and one that no table has
LookupNames(structure) ==
    {"", "payments"} \cup
        (IF structure = NullValue THEN {"users"} ELSE TableNameSet(structure))

\* C22: for the structure held (none, or a parsed one) and any table name,
\* getTableAttributes gives the attribute names, in order, of the earliest
\* table of that name in database-then-table order, and the empty sequence
\* when no table has the name or there is no structure.
C22_AttributesOfFirstMatchingTable ==
    (databaseStructure = NullValue \/ databaseStructure \in ValidStructures) =>
        \A tableName \in LookupNames(databaseStructure) :
            LET got == getTableAttributes(databaseStructure, tableName)
            IN  IF databaseStructure = NullValue
                THEN got = <<>>
                ELSE LET at == TablePositions(databaseStructure, tableName)
                     IN  IF at = {} THEN got = <<>>
                         ELSE \E p \in at :
                                /\ \A q \in at : NoLater(p, q)
                                /\ got = AttributeNames(
                                     databaseStructure.databases[p[1]]
                                         .tables[p[2]])

\* C22 witness: the two-database structure on display, where `users` names
\* a table of each database, and a rule whose attribute was picked from the
\* list getTableAttributes gave for `users`: the first database's `id`.
C22_Witness ==
    /\ ConfigureView
    /\ databaseStructure = CrmStructure
    /\ Cardinality(TablePositions(databaseStructure, "users")) = 2
    /\ getTableAttributes(databaseStructure, "users") = <<"id">>
    /\ getTableAttributes(databaseStructure, "payments") = <<>>
    /\ \E i \in 1..Len(encryptionConfigs) :
           /\ encryptionConfigs[i].tableName = "users"
           /\ encryptionConfigs[i].attribute = "id"

\* the number of tables in the databases before the one at dbIdx
RECURSIVE TablesBefore(_, _)
TablesBefore(structure, dbIdx) ==
    IF dbIdx <= 1 THEN 0
    ELSE TablesBefore(structure, dbIdx - 1)
             + Len(structure.databases[dbIdx - 1].tables)

C24_NoAutomaticRetry ==
    [][/\ sent' # NoRequest =>
            \/ /\ \E data \in FormInputs : handleSubmit(data)
               /\ sent'.endpoint = "parse"
               /\ inflight' = Append(inflight, "onSubmit")
            \/ /\ handleGenerateData
               /\ sent'.endpoint = "generate"
               /\ inflight' = Append(inflight, "handleGenerateData")
       /\ (response' # NoResponse /\ response' # response) =>
            /\ sent' = NoRequest
            /\ Len(inflight') = Len(inflight) - 1
       /\ (Len(inflight') > Len(inflight)) => sent' # NoRequest]_vars

\* C24 witness: a generate call failed on the connection; the error is
\* shown, nothing is outstanding or being sent, and the generate button can
\* be pressed again.
C24_Witness ==
    /\ currentStep = "configure"
    /\ response.type = "error"
    /\ uploadError = "Failed to fetch"
    /\ sent = NoRequest
    /\ inflight = <<>>
    /\ ~isUploading
    /\ ENABLED handleGenerateData

\* C25: a submit of the upload form with databaseType nosql or graph, with
\* or without a file, sends no request and changes nothing of the page:
\* step, busy flag, statuses, structure, registry and rules stay as they
\* were.
C25_NonSqlSubmitDoesNothing ==
    [][\A data \in FormInputs :
          (data.databaseType \in {"nosql", "graph"} /\ handleSubmit(data)) =>
              /\ sent' = NoRequest
              /\ UNCHANGED <<currentStep, isUploading, uploadSuccess,
                             uploadError, databaseStructure, tableEntryCounts,
                             enableEncryption, encryptionConfigs>>
              /\ UNCHANGED <<inflight, response>>]_vars

\* C25 witness: the latest submit was for nosql with a valid file chosen
\* while a success status was shown: nothing was sent, the page is idle in
\* Upload and the success status is still shown.
C25_Witness ==
    /\ submitted.databaseType = "nosql"
    /\ submitted.sqlFile = "valid"
    /\ sent = NoRequest
    /\ inflight = <<>>
    /\ ~isUploading
    /\ currentStep = "upload"
    /\ uploadSuccess

\* C26: a generate call that completes while the workflow is in Upload (it
\* was left outstanding by resetToUpload) leaves the reset state as it is:
\* still Upload, no structure, empty registry, the blank default rule,
\* and neither a success status nor an error status.
C26_LateGenerateKeepsResetState ==
    [][(currentStep = "upload" /\ Completes("handleGenerateData")) =>
          /\ currentStep' = "upload"
          /\ databaseStructure' = NullValue
          /\ tableEntryCounts' = EmptyCounts
          /\ encryptionConfigs' = BlankDefaultList
          /\ ~uploadSuccess'
          /\ uploadError' = NullError]_vars

\* C27: the success status and the error status are never both set.
C27_SuccessAndErrorExclusive ==
    ~(uploadSuccess /\ uploadError # NullError)

\* C28: every rule of the list with an attribute chosen has a table chosen.
C28_AttributeOnlyWithTable ==
    \A i \in 1..Len(encryptionConfigs) :
        encryptionConfigs[i].attribute # "" =>
            encryptionConfigs[i].tableName # ""

\* C29: in Configure, for every table shown, the count its input displays
\* is the value the registry holds for it, which is the value the generate
\* payload carries for it.
C29_DisplayedCountIsRegistryValue ==
    \A t \in ShownTables :
        /\ t \in DOMAIN tableEntryCounts
        /\ DisplayedCount(t) = tableEntryCounts[t]
        /\ GeneratePayload.tableEntryCounts[t] = tableEntryCounts[t]

\* C30: a step that flips the encryption flag while the workflow stays in
\* Configure (a toggle; reset and a successful generate leave Configure)
\* changes nothing else: the rule list, the registry, the structure and the
\* step are as they were, so turning encryption off and on again gives the
\* same list back.
C30_ToggleChangesOnlyTheFlag ==
    [][(/\ currentStep = "configure"
        /\ currentStep' = "configure"
        /\ enableEncryption' # enableEncryption) =>
          /\ encryptionConfigs' = encryptionConfigs
          /\ tableEntryCounts' = tableEntryCounts
          /\ databaseStructure' = databaseStructure
          /\ UNCHANGED <<isUploading, uploadSuccess, uploadError, inflight>>]_vars

\* C30 witness: encryption has been turned off in Configure after two rules
\* were made and a table chosen: the list still holds both rules and the
\* choice, and the edited registry is as it was.
C30_Witness ==
    /\ ConfigureView
    /\ ~enableEncryption
    /\ Len(encryptionConfigs) = 2
    /\ \E i \in 1..Len(encryptionConfigs) : encryptionConfigs[i].tableName # ""
    /\ \E t \in DOMAIN tableEntryCounts : tableEntryCounts[t] # 10
    /\ sent = NoRequest

\* C31: when the backend answers every request, every busy state is
\* followed by a non-busy one, that is, the page is non-busy again and
\* again: whatever the answer to the call, the busy flag is cleared.
C31_BusyEventuallyClears ==
    []<>(~isUploading)

\* C31 witness: a parse call failed on the connection; the page is back to
\* non-busy in Upload with the error shown, and the form can be submitted
\* again.
C31_Witness ==
    /\ currentStep = "upload"
    /\ response.type = "error"
    /\ uploadError = "Failed to fetch"
    /\ ~isUploading
    /\ inflight = <<>>
    /\ ENABLED handleSubmit([databaseType |-> "sql", sqlFile |-> "valid"])

\* C32: every step that enters Configure, the first or a later one, ends
\* with encryption disabled and the rule list being the single blank
\* default rule.
C32_ConfigureStartsWithDefaultRules ==
    [][(currentStep = "upload" /\ currentStep' = "configure") =>
          /\ ~enableEncryption'
          /\ Len(encryptionConfigs') = 1
          /\ encryptionConfigs'[1].id = "1"
          /\ IsBlank(encryptionConfigs'[1])]_vars

\* C32 witness: Configure just entered on the scenario payload: encryption
\* is off, the list is the blank default rule and the registry is untouched.
C32_Witness ==
    /\ currentStep = "configure"
    /\ ParseSucceeded(response)
    /\ databaseStructure = ShopStructure
    /\ ~enableEncryption
    /\ encryptionConfigs = BlankDefaultList
    /\ \A t \in DOMAIN tableEntryCounts : tableEntryCounts[t] = 10
    /\ sent = NoRequest
    /\ ~isUploading

=============================================================================
